---- MODULE Spec2Model ----
(***************************************************************************)
(* Warehouse assistant of agent_test1.py: the three SQLite-backed tools    *)
(* (check_warehouse_stock, simulate_purchase, save_processing_result) and  *)
(* the workflow the agent of process_pdf is instructed to follow.          *)
(*                                                                         *)
(* Every tool call opens its own connection to warehouse.db.  Python's     *)
(* sqlite3 runs a SELECT in autocommit mode and opens a transaction before *)
(* an INSERT or UPDATE; SQLite admits one writer at a time, and a change   *)
(* is visible to other connections only after commit().  A tool call is    *)
(* therefore a sequence of steps: SELECT, the write statement (which takes *)
(* the write lock), commit (which publishes and releases).  A caller whose  *)
(* write statement finds the lock taken waits for it: the step is enabled  *)
(* once the lock is free (the 5 s busy timeout of sqlite3.connect, after   *)
(* which the call would raise OperationalError and change nothing, is left *)
(* out).                                                                   *)
(***************************************************************************)
EXTENDS Integers, Sequences, FiniteSets, TLC

----------------------------------------------------------------------------
(* Bounds of the model *)

NumProcs == 2        \* concurrent callers of the tools
MaxCalls == 3        \* tool calls started in one behaviour
MaxInitRows == 1     \* rows of the warehouse table at start
MaxInitQty == 1      \* largest quantity of a row at start
MaxItems == 2        \* requested items of one workflow run
MaxNeeded == 2       \* largest quantity_needed of a requested item
MaxRuns == 2         \* workflow runs on the same inputs

Procs == 1..NumProcs

\* Product names are character sequences, so that LIKE and = can differ.
ProductNames == { <<"a">>, <<"A">>, <<"a", "b">> }

\* Quantities a caller may pass to simulate_purchase (quantity: int).
Quantities == {-1, 0, 1}

\* hash(product_name) is salted per interpreter: callers in one interpreter
\* share the salt, callers in different interpreters do not.
HashSeeds == {0, 1}

\* pdf_filename values passed to save_processing_result
Documents == {"doc1"}

NoProc == 0
NoRow == [product_id |-> <<"", <<>>, 0>>, product_name |-> <<>>, quantity |-> 0]

----------------------------------------------------------------------------
(* SQL helpers *)

\* SQLite's LIKE folds ASCII case.
Lower(c) == IF c = "A" THEN "a" ELSE IF c = "B" THEN "b" ELSE c

\* text LIKE pattern: % matches any run of characters, _ any one character.
RECURSIVE Like(_, _)
Like(text, pattern) ==
    IF pattern = <<>> THEN text = <<>>
    ELSE IF Head(pattern) = "%"
         THEN Like(text, Tail(pattern))
              \/ (text # <<>> /\ Like(Tail(text), pattern))
         ELSE /\ text # <<>>
              /\ (Head(pattern) = "_" \/ Lower(Head(pattern)) = Lower(Head(text)))
              /\ Like(Tail(text), Tail(pattern))

\* f"%{product_name}%"
LikePattern(product_name) == <<"%">> \o product_name \o <<"%">>

Min(S) == CHOOSE x \in S : \A y \in S : x <= y

\* f"PROD_{hash(product_name)}"
ProductId(product_name, seed) == <<"PROD", product_name, seed>>

\* A variant that hands out the largest id in use again
NextIdReused(sequence) == IF sequence = 0 THEN 1 ELSE sequence

\* id INTEGER PRIMARY KEY AUTOINCREMENT: one more than the largest id ever used
NextId(sequence) == sequence + 1

----------------------------------------------------------------------------
(* State *)

VARIABLES
    warehouse,   \* committed rows of table warehouse, in rowid order
    ledger,      \* committed rows of table processing_results, in rowid order
    sqlite_seq,  \* committed sqlite_sequence of processing_results
    writer,      \* the caller holding the database write lock, or NoProc
    txn,         \* the uncommitted database of the writer
    seed,        \* hash salt of each caller's interpreter
    pc,          \* position of each caller inside its current tool call
    arg,         \* arguments of each caller's current (or last) tool call
    existing,    \* simulate_purchase: the fetched row (or none)
    lastrowid,   \* save_processing_result: cursor.lastrowid
    result,      \* what each caller's last finished call returned or raised
    calls,       \* number of tool calls started
    initial,     \* history: the warehouse at start
    applied,     \* history: simulate_purchase calls that returned success
    phase,       \* workflow: state of the current run
    run          \* workflow: the run's inputs and progress

vars == <<warehouse, ledger, sqlite_seq, writer, txn, seed, pc, arg, existing,
          lastrowid, result, calls, initial, applied, phase, run>>

dbVars == <<warehouse, ledger, sqlite_seq>>
runVars == <<phase, run>>

NoArg == [op |-> "none", product_name |-> <<>>, quantity |-> 0, pdf_filename |-> "",
          items_found |-> <<>>, purchase_actions |-> <<>>]
NoResult == [status |-> "none", action |-> "", available |-> FALSE, product |-> <<>>,
             quantity |-> 0, result_id |-> 0]
NoTxn == [warehouse |-> <<>>, ledger |-> <<>>, sqlite_seq |-> 0]
NoRun == [items |-> <<>>, idx |-> 0, number |-> 0, purchases |-> <<>>, deficit |-> 0,
          first |-> <<>>, ids |-> <<>>]

\* Warehouse tables the program can start from: distinct names, distinct ids,
\* non-negative quantities (as the rows inserted at lines 212-213).
SeedRow(k, n, q) == [product_id |-> <<"P", <<>>, k>>, product_name |-> n, quantity |-> q]

RECURSIVE InitialTables(_)
InitialTables(k) ==
    IF k = 0 THEN { <<>> }
    ELSE LET shorter == InitialTables(k - 1)
         IN shorter \cup
            { Append(t, SeedRow(Len(t) + 1, n, q)) :
                t \in { s \in shorter : Len(s) = k - 1 },
                n \in ProductNames, q \in 0..MaxInitQty }

DistinctNames(table) ==
    \A i, j \in 1..Len(table) : table[i].product_name = table[j].product_name => i = j

InitCommon ==
    /\ warehouse \in { t \in InitialTables(MaxInitRows) : DistinctNames(t) }
    /\ initial = warehouse
    /\ ledger = <<>>
    /\ sqlite_seq = 0
    /\ writer = NoProc
    /\ txn = NoTxn
    /\ pc = [p \in Procs |-> "idle"]
    /\ arg = [p \in Procs |-> NoArg]
    /\ existing = [p \in Procs |-> NoRow]
    /\ lastrowid = [p \in Procs |-> 0]
    /\ result = [p \in Procs |-> NoResult]
    /\ calls = 0
    /\ applied = [n \in ProductNames |-> [sum |-> 0, positive |-> TRUE, count |-> 0]]

Init ==
    /\ InitCommon
    /\ seed \in { s \in [Procs -> HashSeeds] : s[1] = 0 }
    /\ phase = "tools"
    /\ run = NoRun

----------------------------------------------------------------------------
(* check_warehouse_stock *)

\* SELECT product_name, quantity FROM warehouse WHERE product_name LIKE ? ; fetchone()
Lookup(table, product_name) ==
    LET hits == { i \in 1..Len(table) :
                     Like(table[i].product_name, LikePattern(product_name)) }
    IN IF hits = {} THEN NoRow ELSE table[Min(hits)]

StockReply(table, product_name) ==
    LET row == Lookup(table, product_name)
    IN IF row # NoRow
       THEN [NoResult EXCEPT !.status = "ok", !.action = "checked", !.available = TRUE,
                             !.product = row.product_name, !.quantity = row.quantity]
       ELSE [NoResult EXCEPT !.status = "ok", !.action = "checked", !.available = FALSE,
                             !.product = product_name, !.quantity = 0]

check_warehouse_stock(p, product_name) ==
    /\ pc[p] = "idle"
    /\ result' = [result EXCEPT ![p] = StockReply(warehouse, product_name)]
    /\ calls' = calls + 1
    /\ UNCHANGED <<dbVars, writer, txn, seed, pc, arg, existing, lastrowid, initial, applied>>

----------------------------------------------------------------------------
(* simulate_purchase *)

\* SELECT quantity FROM warehouse WHERE product_name = ? ; fetchone()
SelectExisting(table, product_name) ==
    LET hits == { i \in 1..Len(table) : table[i].product_name = product_name }
    IN IF hits = {} THEN NoRow ELSE table[Min(hits)]

PurchaseSelect(p, product_name, quantity) ==
    /\ pc[p] = "idle"
    /\ arg' = [arg EXCEPT ![p] = [NoArg EXCEPT !.op = "purchase",
                                               !.product_name = product_name,
                                               !.quantity = quantity]]
    /\ existing' = [existing EXCEPT ![p] = SelectExisting(warehouse, product_name)]
    /\ pc' = [pc EXCEPT ![p] = "purchase_selected"]
    /\ calls' = calls + 1
    /\ UNCHANGED <<dbVars, writer, txn, seed, lastrowid, result, initial, applied>>

\* new_quantity = existing[0] + quantity
NewQuantity(old, quantity) == old + quantity

\* UPDATE warehouse SET quantity = ? WHERE product_name = ?
UpdateQuantity(table, product_name, new_quantity) ==
    [i \in 1..Len(table) |->
        IF table[i].product_name = product_name
        THEN [table[i] EXCEPT !.quantity = new_quantity]
        ELSE table[i]]

\* product_id TEXT PRIMARY KEY
PrimaryKeyTaken(table, product_id) == \E i \in 1..Len(table) : table[i].product_id = product_id

\* INSERT INTO warehouse (product_id, product_name, quantity) VALUES (?, ?, ?)
InsertProduct(table, product_id, product_name, quantity) ==
    Append(table, [product_id |-> product_id, product_name |-> product_name,
                   quantity |-> quantity])

\* The write statement: it waits for the write lock, then works on the
\* committed database.  An INSERT of a taken primary key raises
\* sqlite3.IntegrityError, which leaves simulate_purchase uncommitted.
PurchaseWrite(p) ==
    /\ pc[p] = "purchase_selected"
    /\ writer = NoProc
    /\ LET name == arg[p].product_name
           pid == ProductId(name, seed[p])
       IN IF existing[p] # NoRow
          THEN /\ txn' = [warehouse |-> UpdateQuantity(warehouse, name,
                                           NewQuantity(existing[p].quantity, arg[p].quantity)),
                          ledger |-> ledger, sqlite_seq |-> sqlite_seq]
               /\ writer' = p
               /\ pc' = [pc EXCEPT ![p] = "purchase_written"]
               /\ UNCHANGED <<result, arg, existing>>
          ELSE IF PrimaryKeyTaken(warehouse, pid)
          THEN /\ result' = [result EXCEPT ![p] = [NoResult EXCEPT !.status = "IntegrityError"]]
               /\ pc' = [pc EXCEPT ![p] = "idle"]
               /\ arg' = [arg EXCEPT ![p] = NoArg]
               /\ existing' = [existing EXCEPT ![p] = NoRow]
               /\ UNCHANGED <<txn, writer>>
          ELSE /\ txn' = [warehouse |-> InsertProduct(warehouse, pid, name, arg[p].quantity),
                          ledger |-> ledger, sqlite_seq |-> sqlite_seq]
               /\ writer' = p
               /\ pc' = [pc EXCEPT ![p] = "purchase_written"]
               /\ UNCHANGED <<result, arg, existing>>
    /\ UNCHANGED <<dbVars, seed, lastrowid, calls, initial, applied>>

\* History of the purchases that returned success, per product name
Record(history, product_name, quantity) ==
    [history EXCEPT ![product_name] =
        [sum |-> @.sum + quantity, positive |-> @.positive /\ quantity > 0,
         count |-> IF @.count < 2 THEN @.count + 1 ELSE 2]]

\* conn.commit(); conn.close(); return json.dumps({"success": True, ...})
PurchaseCommit(p) ==
    /\ pc[p] = "purchase_written"
    /\ writer = p
    /\ warehouse' = txn.warehouse
    /\ writer' = NoProc
    /\ txn' = NoTxn
    /\ result' = [result EXCEPT ![p] = [NoResult EXCEPT !.status = "ok",
                                                       !.action = "purchased",
                                                       !.product = arg[p].product_name,
                                                       !.quantity = arg[p].quantity]]
    /\ applied' = Record(applied, arg[p].product_name, arg[p].quantity)
    /\ pc' = [pc EXCEPT ![p] = "idle"]
    /\ arg' = [arg EXCEPT ![p] = NoArg]
    /\ existing' = [existing EXCEPT ![p] = NoRow]
    /\ UNCHANGED <<ledger, sqlite_seq, seed, lastrowid, calls, initial>>

----------------------------------------------------------------------------
(* save_processing_result *)

\* A variant that replaces the newest row instead of adding one
InsertResultReplacing(table, id, a, by) ==
    LET row == [id |-> id, pdf_filename |-> a.pdf_filename, items_found |-> a.items_found,
                purchase_actions |-> a.purchase_actions, by |-> by]
    IN IF table = <<>> THEN <<row>> ELSE [table EXCEPT ![Len(table)] = row]

\* INSERT INTO processing_results (...) VALUES (?, ?, ?, ?)
InsertResult(table, id, a, by) ==
    Append(table, [id |-> id, pdf_filename |-> a.pdf_filename,
                   items_found |-> a.items_found,
                   purchase_actions |-> a.purchase_actions, by |-> by])  \* by: history

\* result_id = cursor.lastrowid: the rowid of this connection's last INSERT
LastRowId(p, id) == id

SaveInsert(p, pdf_filename, items_found, purchase_actions) ==
    /\ pc[p] = "idle"
    /\ writer = NoProc
    /\ LET a == [NoArg EXCEPT !.op = "save", !.pdf_filename = pdf_filename,
                              !.items_found = items_found,
                              !.purchase_actions = purchase_actions]
           id == NextId(sqlite_seq)
       IN /\ arg' = [arg EXCEPT ![p] = a]
          /\ txn' = [warehouse |-> warehouse,
                     ledger |-> InsertResult(ledger, id, a, p),
                     sqlite_seq |-> id]
          /\ lastrowid' = [lastrowid EXCEPT ![p] = LastRowId(p, id)]
    /\ writer' = p
    /\ pc' = [pc EXCEPT ![p] = "save_inserted"]
    /\ calls' = calls + 1
    /\ UNCHANGED <<dbVars, seed, existing, result, initial, applied>>

\* conn.commit(); conn.close(); return json.dumps({"success": True, "result_id": ...})
SaveCommit(p) ==
    /\ pc[p] = "save_inserted"
    /\ writer = p
    /\ ledger' = txn.ledger
    /\ sqlite_seq' = txn.sqlite_seq
    /\ writer' = NoProc
    /\ txn' = NoTxn
    /\ result' = [result EXCEPT ![p] = [NoResult EXCEPT !.status = "ok",
                                                       !.action = "saved",
                                                       !.result_id = lastrowid[p]]]
    /\ pc' = [pc EXCEPT ![p] = "idle"]
    /\ arg' = [arg EXCEPT ![p] = NoArg]
    /\ lastrowid' = [lastrowid EXCEPT ![p] = 0]
    /\ UNCHANGED <<warehouse, seed, existing, calls, initial, applied>>

----------------------------------------------------------------------------
(* Callers using the tools directly, concurrently *)

CallCheck(p) ==
    /\ phase = "tools" /\ calls < MaxCalls
    /\ \E n \in ProductNames : check_warehouse_stock(p, n)
    /\ UNCHANGED runVars

CallPurchase(p) ==
    /\ phase = "tools" /\ calls < MaxCalls
    /\ \E n \in ProductNames, q \in Quantities : PurchaseSelect(p, n, q)
    /\ UNCHANGED runVars

CallSave(p) ==
    /\ phase = "tools" /\ calls < MaxCalls
    /\ \E d \in Documents : SaveInsert(p, d, <<>>, <<>>)
    /\ UNCHANGED runVars

StepPurchaseWrite(p) == PurchaseWrite(p) /\ UNCHANGED runVars
StepPurchaseCommit(p) == phase # "PurchaseCalled" /\ PurchaseCommit(p) /\ UNCHANGED runVars
StepSaveCommit(p) == phase # "SaveCalled" /\ SaveCommit(p) /\ UNCHANGED runVars

Next ==
    \E p \in Procs :
        \/ CallCheck(p)
        \/ CallPurchase(p)
        \/ CallSave(p)
        \/ StepPurchaseWrite(p)
        \/ StepPurchaseCommit(p)
        \/ StepSaveCommit(p)

Spec == Init /\ [][Next]_vars

----------------------------------------------------------------------------
(* Concurrent appends to processing_results, next to purchases of one unit *)

InitLedger ==
    /\ Init
    /\ warehouse = <<>>

LedgerPurchase(p) ==
    /\ phase = "tools" /\ calls < MaxCalls
    /\ \E n \in ProductNames : PurchaseSelect(p, n, 1)
    /\ UNCHANGED runVars

NextLedger ==
    \E p \in Procs :
        \/ CallSave(p)
        \/ StepSaveCommit(p)
        \/ LedgerPurchase(p)
        \/ StepPurchaseWrite(p)
        \/ StepPurchaseCommit(p)

SpecLedger == InitLedger /\ [][NextLedger]_vars

----------------------------------------------------------------------------
(* The workflow of process_pdf: what the system prompt tells the agent to do *)

\* The caller that runs the agent
Agent == 1

\* Items the text may ask for: (name, quantity_needed), quantity_needed > 0
RequestedItems == [name : ProductNames, quantity_needed : 1..MaxNeeded]

RECURSIVE ItemLists(_)
ItemLists(k) ==
    IF k = 0 THEN { <<>> }
    ELSE LET shorter == ItemLists(k - 1)
         IN shorter \cup { Append(l, it) : l \in { s \in shorter : Len(s) = k - 1 },
                                           it \in RequestedItems }

\* "Se NON e' disponibile o la quantita' e' insufficiente, acquistalo"
Insufficient(reply, quantity_needed) ==
    ~reply.available \/ reply.quantity < quantity_needed

\* The quantity to buy: what is missing to reach quantity_needed
DeficitQuantity(reply, quantity_needed) == quantity_needed - reply.quantity

InitRun ==
    /\ InitCommon
    /\ seed = [p \in Procs |-> 0]
    /\ \E items \in ItemLists(MaxItems) :
          run = [items |-> items, idx |-> 1, number |-> 1, purchases |-> <<>>,
                 deficit |-> 0, first |-> <<>>, ids |-> <<>>]
    /\ phase = IF Len(run.items) = 0 THEN "Recording" ELSE "Checking"

\* The phase after item idx is dealt with
AfterItem(idx) == IF idx < Len(run.items) THEN "Checking" ELSE "Recording"

\* "Controlla se e' disponibile in magazzino usando check_warehouse_stock"
RunCheck ==
    /\ phase = "Checking"
    /\ LET item == run.items[run.idx]
           reply == StockReply(warehouse, item.name)
       IN /\ check_warehouse_stock(Agent, item.name)
          /\ IF Insufficient(reply, item.quantity_needed)
             THEN /\ phase' = "Purchasing"
                  /\ run' = [run EXCEPT !.deficit = DeficitQuantity(reply, item.quantity_needed)]
             ELSE /\ phase' = AfterItem(run.idx)
                  /\ run' = [run EXCEPT !.idx = @ + 1]

\* "acquistalo usando simulate_purchase"
RunPurchase ==
    /\ phase = "Purchasing"
    /\ PurchaseSelect(Agent, run.items[run.idx].name, run.deficit)
    /\ phase' = "PurchaseCalled"
    /\ UNCHANGED run

RunPurchaseWrite ==
    /\ phase = "PurchaseCalled"
    /\ PurchaseWrite(Agent)
    /\ UNCHANGED runVars

RunPurchased ==
    /\ phase = "PurchaseCalled"
    /\ PurchaseCommit(Agent)
    /\ phase' = AfterItem(run.idx)
    /\ run' = [run EXCEPT !.idx = @ + 1, !.deficit = 0,
                          !.purchases = Append(@, [name |-> arg[Agent].product_name,
                                                   quantity |-> arg[Agent].quantity])]

\* "Alla fine, salva tutti i risultati usando save_processing_result"
RunSave ==
    /\ phase = "Recording"
    /\ \E d \in Documents : SaveInsert(Agent, d, run.items, run.purchases)
    /\ phase' = "SaveCalled"
    /\ UNCHANGED run

RunSaved ==
    /\ phase = "SaveCalled"
    /\ SaveCommit(Agent)
    /\ phase' = "Done"
    /\ run' = [run EXCEPT !.ids = Append(@, lastrowid[Agent])]

\* process_pdf called again with the same document
RunAgain ==
    /\ phase = "Done"
    /\ run.number < MaxRuns
    /\ phase' = IF Len(run.items) = 0 THEN "Recording" ELSE "Checking"
    /\ run' = [run EXCEPT !.idx = 1, !.number = @ + 1, !.purchases = <<>>,
                          !.first = IF run.number = 1 THEN run.purchases ELSE @]
    /\ UNCHANGED <<dbVars, writer, txn, seed, pc, arg, existing, lastrowid, result,
                   calls, initial, applied>>

NextRun ==
    \/ RunCheck
    \/ RunPurchase
    \/ RunPurchaseWrite
    \/ RunPurchased
    \/ RunSave
    \/ RunSaved
    \/ RunAgain

SpecRun == InitRun /\ [][NextRun]_vars

----------------------------------------------------------------------------
(* Properties *)

AllIdle == \A p \in Procs : pc[p] = "idle"

\* The quantity stored for a name: the total over the rows of that name (0 if absent)
RECURSIVE StoredQuantity(_, _)
StoredQuantity(table, product_name) ==
    IF table = <<>> THEN 0
    ELSE (IF Head(table).product_name = product_name THEN Head(table).quantity ELSE 0)
         + StoredQuantity(Tail(table), product_name)

\* A step in which caller p returns from (or is thrown out of) simulate_purchase
PurchaseEnds(p) == arg[p].op = "purchase" /\ pc[p] # "idle" /\ pc'[p] = "idle"

\* C1: once all simulate_purchase calls have returned, a product that only saw
\* purchases of positive quantities stores its initial quantity (0 if it was
\* absent) plus the sum of the purchased quantities, whatever the interleaving.
NoLostUpdate ==
    AllIdle =>
        \A n \in ProductNames :
            (applied[n].count > 0 /\ applied[n].positive) =>
                StoredQuantity(warehouse, n) = StoredQuantity(initial, n) + applied[n].sum

\* C2: a simulate_purchase call with quantity <= 0 ends in InvalidQuantity and
\* leaves the warehouse table as it was.
RejectsNonPositive ==
    [][\A p \in Procs :
          (PurchaseEnds(p) /\ arg[p].quantity <= 0) =>
              (result'[p].status = "InvalidQuantity" /\ warehouse' = warehouse)]_vars

\* C3: no warehouse row has a negative quantity, and check_warehouse_stock never
\* reports one.
NonNegativeStock ==
    /\ \A i \in 1..Len(warehouse) : warehouse[i].quantity >= 0
    /\ \A p \in Procs : result[p].action = "checked" => result[p].quantity >= 0

\* C4: the ids of processing_results are strictly increasing in append order
\* (so no two rows share one), and a returned result_id is the id of the row the
\* returning caller inserted last.
LedgerIdsIncrease ==
    /\ \A i, j \in 1..Len(ledger) : i < j => ledger[i].id < ledger[j].id
    /\ \A p \in Procs :
          result[p].action = "saved" =>
              /\ \E i \in 1..Len(ledger) : ledger[i].by = p /\ ledger[i].id = result[p].result_id
              /\ \A i \in 1..Len(ledger) : ledger[i].by = p => ledger[i].id <= result[p].result_id

\* Two callers have each appended and been answered, one of them while the other
\* was between two of its appends.
LedgerIdsIncreaseWitness ==
    /\ Len(ledger) >= 3
    /\ ledger[1].by # ledger[2].by /\ ledger[3].by = ledger[1].by
    /\ \A p \in Procs : result[p].action = "saved"

\* C6: after the second of two runs on the same inputs, the two records have
\* different ids and no product bought in run 1 was bought again in run 2.
RepeatRunBuysNothing ==
    (phase = "Done" /\ run.number = 2) =>
        /\ run.ids[1] # run.ids[2]
        /\ \A i \in 1..Len(run.purchases), j \in 1..Len(run.first) :
              run.purchases[i].name # run.first[j].name

OneRowPerProduct ==
    /\ DistinctNames(warehouse)
    /\ \A i, j \in 1..Len(warehouse) :
          warehouse[i].product_id = warehouse[j].product_id => i = j
    /\ \A p \in Procs : result[p].status # "IntegrityError"

\* C10: right after simulate_purchase(n, q) with q > 0 returns,
\* check_warehouse_stock(n) reports the product n itself, with a quantity of at
\* least q.
LookupFindsPurchase ==
    [][\A p \in Procs :
          (PurchaseEnds(p) /\ pc[p] = "purchase_written" /\ arg[p].quantity > 0) =>
              LET reply == StockReply(warehouse', arg[p].product_name)
              IN /\ reply.available
                 /\ reply.product = arg[p].product_name
                 /\ reply.quantity >= arg[p].quantity]_vars

====
